---------------------------- MODULE Spec2Model ----------------------------
(***************************************************************************)
(* A model of gizmo's request/response engine (src/gizmo/connection.py):   *)
(* the RequestQueryLogger, Request.send over a websocket connection, and   *)
(* Response.translate with its titan repair and entity hydration.          *)
(***************************************************************************)
EXTENDS Integers, Sequences, FiniteSets, TLC

(***************************************************************************)
(* JSON values.  A value is a record tagged with its Python type, so that  *)
(* values of different types can be compared and stored together.          *)
(*   None -> Null, int -> I(n), str -> S(s), list -> L(seq),               *)
(*   dict -> M(f) with f a function from key strings to values.            *)
(***************************************************************************)
Null == [t |-> "null"]
I(n) == [t |-> "int", v |-> n]
S(s) == [t |-> "str", v |-> s]
L(q) == [t |-> "list", v |-> q]
M(f) == [t |-> "dict", v |-> f]

EmptyMap == [k \in {} |-> Null]

\* hasattr(arg, '__iter__'): str, list and dict are iterable, int and None not.
hasattr_iter(arg) == arg.t \in {"str", "list", "dict"}

\* isinstance(arg, dict)
isinstance_dict(arg) == arg.t = "dict"

\* dict.get(k): the value, or None when the key is absent.
dict_get(f, k) == IF k \in DOMAIN f THEN f[k] ELSE Null

\* dict.update(g): g's entries override f's.
dict_update(f, g) ==
    [k \in (DOMAIN f) \cup (DOMAIN g) |-> IF k \in DOMAIN g THEN g[k] ELSE f[k]]

\* del d[k]
dict_del(f, k) == [x \in (DOMAIN f) \ {k} |-> f[x]]


\* Python truth value of a JSON value (the `x or default` idiom).
truthy(x) ==
    CASE x.t = "null" -> FALSE
      [] x.t = "int"  -> x.v # 0
      [] x.t = "str"  -> x.v # ""
      [] x.t = "list" -> Len(x.v) > 0
      [] x.t = "dict" -> DOMAIN x.v # {}

-----------------------------------------------------------------------------
(***************************************************************************)
(* Response._fix_titan_data and Response.translate                         *)
(***************************************************************************)

\* The keys a caller may bind to an entity, in the order a row's items are
\* visited (dict order of the parsed JSON object).
BindOrder == <<"v", "w">>
BindKeys == {BindOrder[i] : i \in 1..Len(BindOrder)}

\* The loop of _fix_titan_data: one single-entry dict per element that is a
\* dict holding both 'key' and 'value'; every other element is skipped.
RECURSIVE titan_fixed(_)
titan_fixed(data) ==
    IF Len(data) = 0 THEN <<>>
    ELSE LET ret == Head(data)
             rest == titan_fixed(Tail(data))
         IN  IF isinstance_dict(ret) /\ "key" \in DOMAIN ret.v /\ "value" \in DOMAIN ret.v
             THEN <<M(ret.v["key"].v :> ret.v["value"])>> \o rest
             ELSE rest

\* Response._fix_titan_data(data)
fix_titan_data(data) ==
    IF data.t = "list"
    THEN LET fixed == titan_fixed(data.v)
         IN  IF Len(data.v) > 0 /\ Len(fixed) = 0 THEN data ELSE L(fixed)
    ELSE data

\* has_update(keys): some key of the row is bound to an entity.
has_update(keys, update_keys) == \E k \in keys : k \in update_keys

\* fix_properties without the merge: 'properties' stays nested in the copy.
fix_properties_unmerged(arg) ==
    M(dict_update(arg.v,
        "id" :> dict_get(arg.v, "id") @@
        "type" :> dict_get(arg.v, "type") @@
        "label" :> dict_get(arg.v, "label")))

\* fix_properties without the final update: id, type and label are not added.
fix_properties_unnormalized(arg) ==
    IF "properties" \in DOMAIN arg.v
    THEN M(dict_del(dict_update(arg.v, arg.v["properties"].v), "properties"))
    ELSE arg

\* fix_properties(arg): a copy of the dict with arg['properties'] merged in and
\* the 'properties' key removed, then id, type and label set from arg itself.
fix_properties(arg) ==
    LET props0 == arg.v
        props1 == IF "properties" \in DOMAIN arg.v
                  THEN dict_del(dict_update(props0, arg.v["properties"].v), "properties")
                  ELSE props0
    IN  M(dict_update(props1,
            "id" :> dict_get(arg.v, "id") @@
            "type" :> dict_get(arg.v, "type") @@
            "label" :> dict_get(arg.v, "label")))

\* entity.empty(): every field cleared.
entity_empty(fields) == EmptyMap

\* entity.hydrate(props, reset_initial=True): bulk field assignment.
entity_hydrate(fields, props) == dict_update(fields, props.v)

\* The inner loop of translate over the items of a row that has a bound key:
\* each bound key's value is flattened, appended, and its entity refreshed.
RECURSIVE hydrate_items(_, _, _, _, _)
hydrate_items(arg, i, update_keys, response, ents) ==
    IF i > Len(BindOrder) THEN [response |-> response, entities |-> ents]
    ELSE LET k == BindOrder[i]
         IN  IF k \in DOMAIN arg.v /\ k \in update_keys
             THEN LET props == fix_properties(arg.v[k])
                  IN  hydrate_items(arg, i + 1, update_keys, Append(response, props),
                        [ents EXCEPT ![k] = entity_hydrate(entity_empty(ents[k]), props)])
             ELSE hydrate_items(arg, i + 1, update_keys, response, ents)

\* The scalar branch appending to the rows so far instead of replacing them.
scalar_row_appended(response, arg) == Append(response, M("response" :> arg))

\* The scalar branch of translate: the rows so far are replaced by one row.
scalar_row(response, arg) == <<M("response" :> arg)>>

\* The loop of translate over the repaired data.
RECURSIVE translate_loop(_, _, _, _, _)
translate_loop(data, i, update_keys, response, ents) ==
    IF i > Len(data) THEN [response |-> response, entities |-> ents]
    ELSE LET arg == data[i]
         IN  IF ~hasattr_iter(arg)
             THEN translate_loop(data, i + 1, update_keys, scalar_row(response, arg), ents)
             ELSE IF isinstance_dict(arg)
             THEN IF has_update(DOMAIN arg.v, update_keys)
                  THEN LET r == hydrate_items(arg, 1, update_keys, response, ents)
                       IN  translate_loop(data, i + 1, update_keys, r.response, r.entities)
                  ELSE translate_loop(data, i + 1, update_keys,
                                      Append(response, fix_properties(arg)), ents)
             ELSE translate_loop(data, i + 1, update_keys, Append(response, arg), ents)

\* self.result.get('data') or []
result_data(result) ==
    LET d == dict_get(result, "data") IN IF truthy(d) THEN d ELSE L(<<>>)

\* Response.translate(): the translated rows and the entities as it leaves them.
translate(result, update_keys, ents) ==
    translate_loop(fix_titan_data(result_data(result)).v, 1, update_keys, <<>>, ents)

-----------------------------------------------------------------------------
(***************************************************************************)
(* RequestQueryLogger                                                      *)
(***************************************************************************)

\* RequestQueryLogger.add: one entry appended to self.queries.
logger_add(qs, script, params, query, execution_time) ==
    Append(qs, [query |-> query, script |-> script, params |-> params,
                execution_time |-> execution_time])

\* reset leaving the entries in place.
logger_reset_keeps(qs) == qs

\* RequestQueryLogger.reset
logger_reset(qs) == <<>>

\* RequestQueryLogger.total_time: sum of the entries' execution_time.
RECURSIVE total_time(_)
total_time(qs) ==
    IF Len(qs) = 0 THEN 0 ELSE Head(qs).execution_time + total_time(Tail(qs))

\* RequestQueryLogger.__len__
logger_len(qs) == Len(qs)

-----------------------------------------------------------------------------
(***************************************************************************)
(* State                                                                   *)
(***************************************************************************)
VARIABLES
    queries,        \* request_logger.queries
    n_adds,         \* history: add calls since the last reset
    sum_times,      \* history: sum of their execution_time arguments
    was_reset,      \* history: reset has been called
    entities,       \* the fields of the entity bound to each key
    t_result,       \* Response.result
    t_update,       \* keys of Response.update_entities
    t_pc,           \* "new" before Response.__init__ ran translate, then "translated"
    t_data,         \* translate's local `data`: the repaired sequence
    t_response,     \* the rows translate returned last
    t_before,       \* history: the entities as they were before translate
    log_requests,   \* Request.request_logger: "logger", "None" or "False"
    self_connection,\* Request.connection: the connection made last, 0 for None
    conns,          \* every connection made: its maker, state, frames written and read
    pc,             \* where each send call stands
    cm,             \* the connection each call's `async with` holds, 0 before it
    ws,             \* each call's local `ws`, 0 before the connection is entered
    locals,         \* each call's locals: data, request_id, result, status
    pending,        \* the exception raised inside the `async with` body, if any
    outcome,        \* what each call returned or raised
    events,         \* history: the operations each call has issued, in order
    before          \* history: request_logger.queries when each call began

vars == <<queries, n_adds, sum_times, was_reset, entities, t_result, t_update, t_pc, t_data,
          t_response, t_before, log_requests, self_connection, conns, pc, cm, ws,
          locals, pending, outcome, events, before>>

logger_vars == <<queries, n_adds, sum_times, was_reset>>
translate_vars == <<entities, t_result, t_update, t_pc, t_data, t_response, t_before>>
response_vars == <<t_result, t_update, t_pc, t_data, t_response, t_before>>
send_vars == <<log_requests, self_connection, conns, pc, cm, ws, locals, pending,
               outcome, events, before>>

-----------------------------------------------------------------------------
(***************************************************************************)
(* The logger on its own: any sequence of add and reset calls.             *)
(***************************************************************************)
\* The send calls in flight on one Request object.
NumCalls == 2
Calls == 1..NumCalls

NoLocals == [data |-> Null, request_id |-> Null, result |-> Null, status |-> Null]
NoOutcome == [kind |-> "none"]

MaxQueries == 3
Scripts == {"g.V()", "g.E()"}
ExecTimes == {10, 20, 30}

\* The entities a caller owns before a response refreshes them.
StaleFields == "old" :> I(9) @@ "name" :> S("stale")
InitEntities == [k \in BindKeys |-> StaleFields]

LoggerInit ==
    /\ queries = <<>>
    /\ n_adds = 0
    /\ sum_times = 0
    /\ was_reset = FALSE
    /\ entities = InitEntities
    /\ t_result = EmptyMap
    /\ t_update = {}
    /\ t_pc = "new"
    /\ t_data = <<>>
    /\ t_response = <<>>
    /\ t_before = InitEntities
    /\ log_requests = "logger"
    /\ self_connection = 0
    /\ conns = <<>>
    /\ pc = [c \in Calls |-> "idle"]
    /\ cm = [c \in Calls |-> 0]
    /\ ws = [c \in Calls |-> 0]
    /\ locals = [c \in Calls |-> NoLocals]
    /\ pending = [c \in Calls |-> "none"]
    /\ outcome = [c \in Calls |-> NoOutcome]
    /\ events = [c \in Calls |-> <<>>]
    /\ before = [c \in Calls |-> <<>>]

\* request_logger.add(script, params, query, execution_time)
Add ==
    /\ Len(queries) < MaxQueries
    /\ \E script \in Scripts, execution_time \in ExecTimes :
         /\ queries' = logger_add(queries, script, EmptyMap, script, execution_time)
         /\ n_adds' = n_adds + 1
         /\ sum_times' = sum_times + execution_time
    /\ UNCHANGED was_reset
    /\ UNCHANGED translate_vars
    /\ UNCHANGED send_vars

\* request_logger.reset()
Reset ==
    /\ queries' = logger_reset(queries)
    /\ n_adds' = 0
    /\ sum_times' = 0
    /\ was_reset' = TRUE
    /\ UNCHANGED translate_vars
    /\ UNCHANGED send_vars

LoggerNext == Add \/ Reset

SpecLogger == LoggerInit /\ [][LoggerNext]_vars

\* C7: tracer accounting.  After any sequence of add and reset calls, len()
\* is the number of adds since the last reset and total_time the sum of their
\* execution times; right after a reset both are 0.
C7_TracerAccounting ==
    /\ logger_len(queries) = n_adds
    /\ total_time(queries) = sum_times
    /\ n_adds = 0 => (logger_len(queries) = 0 /\ total_time(queries) = 0)

\* C7 witness: after a reset, three adds with times 10, 20 and 30.
C7_Witness ==
    /\ was_reset
    /\ logger_len(queries) = 3
    /\ [i \in 1..3 |-> queries[i].execution_time] = <<10, 20, 30>>
    /\ total_time(queries) = 60

-----------------------------------------------------------------------------
(***************************************************************************)
(* A Response on its own: __init__ translates once, and every read of the  *)
(* `data` property translates again.  The raw data is any sequence of at   *)
(* most MaxLen elements of Elems.                                          *)
(***************************************************************************)
MaxLen == 3

\* Vertex maps as the server returns them for a bound variable.
VertexA == M("id" :> I(7) @@ "label" :> S("person") @@
             "properties" :> M("name" :> S("x")))
VertexB == M("name" :> S("y") @@ "properties" :> M("id" :> I(8) @@ "age" :> I(30)))

Scalars == {I(1), I(2), Null}
OtherContainers == {S("s")}
PlainRows ==
    { M(EmptyMap),
      M("a" :> I(1)),
      M("key" :> S("name")),
      M("value" :> S("alice")),
      M("id" :> I(7) @@ "properties" :> M("name" :> S("x"))) }
PairRows ==
    { M("key" :> S("name") @@ "value" :> S("alice")),
      M("key" :> S("age") @@ "value" :> I(30)),
      M("key" :> S("name") @@ "value" :> S("bob") @@ "a" :> I(1)),
      M("key" :> S("v") @@ "value" :> VertexB) }
BoundRows ==
    { M("v" :> VertexA),
      M("v" :> VertexB @@ "a" :> I(1)),
      M("v" :> VertexB @@ "w" :> VertexA) }

Elems == Scalars \cup OtherContainers \cup PlainRows \cup PairRows \cup BoundRows

DataSeqs == UNION {[1..n -> Elems] : n \in 0..MaxLen}

Bindings == {{}, {"v"}, {"v", "w"}}

TranslateInit ==
    /\ queries = <<>>
    /\ n_adds = 0
    /\ sum_times = 0
    /\ was_reset = FALSE
    /\ entities = InitEntities
    /\ t_result \in {EmptyMap} \cup {"data" :> L(d) : d \in DataSeqs}
    /\ t_update \in Bindings
    /\ t_pc = "new"
    /\ t_data = <<>>
    /\ t_response = <<>>
    /\ t_before = InitEntities
    /\ log_requests = "logger"
    /\ self_connection = 0
    /\ conns = <<>>
    /\ pc = [c \in Calls |-> "idle"]
    /\ cm = [c \in Calls |-> 0]
    /\ ws = [c \in Calls |-> 0]
    /\ locals = [c \in Calls |-> NoLocals]
    /\ pending = [c \in Calls |-> "none"]
    /\ outcome = [c \in Calls |-> NoOutcome]
    /\ events = [c \in Calls |-> <<>>]
    /\ before = [c \in Calls |-> <<>>]

\* Response.__init__: stores its arguments and calls self.translate().
ResponseInit ==
    /\ t_pc = "new"
    /\ LET r == translate(t_result, t_update, entities)
       IN  /\ t_data' = fix_titan_data(result_data(t_result)).v
           /\ t_response' = r.response
           /\ entities' = r.entities
    /\ t_before' = entities
    /\ t_pc' = "translated"
    /\ UNCHANGED <<t_result, t_update>>
    /\ UNCHANGED logger_vars
    /\ UNCHANGED send_vars

\* Response.data: the property calls self.translate() again.
ResponseData ==
    /\ t_pc = "translated"
    /\ LET r == translate(t_result, t_update, entities)
       IN  /\ t_data' = fix_titan_data(result_data(t_result)).v
           /\ t_response' = r.response
           /\ entities' = r.entities
    /\ UNCHANGED <<t_result, t_update, t_pc, t_before>>
    /\ UNCHANGED logger_vars
    /\ UNCHANGED send_vars

TranslateNext == ResponseInit \/ ResponseData

SpecTranslate == TranslateInit /\ [][TranslateNext]_vars

-----------------------------------------------------------------------------
(***************************************************************************)
(* Properties of translation, stated on the raw data without the model's   *)
(* own operators where the expected value can be written down directly.    *)
(***************************************************************************)

\* The raw sequence handed to the Response (empty when 'data' is absent).
RawData == IF "data" \in DOMAIN t_result THEN t_result["data"].v ELSE <<>>

Range(q) == {q[i] : i \in 1..Len(q)}

\* A non-container element: None or a number.
IsScalar(e) == e.t \in {"null", "int"}

\* A mapping that carries both a 'key' and a 'value' entry.
IsPair(e) == e.t = "dict" /\ {"key", "value"} \subseteq DOMAIN e.v

NoPairs(q) == \A i \in 1..Len(q) : ~IsPair(q[i])
HasScalar(q) == \E i \in 1..Len(q) : IsScalar(q[i])
LastScalar(q) == CHOOSE i \in 1..Len(q) :
                    IsScalar(q[i]) /\ \A j \in (i + 1)..Len(q) : ~IsScalar(q[j])

\* The rows translate gives for a sequence on its own.
RowsOf(q) == translate("data" :> L(q), t_update, InitEntities).response

\* The flattened properties of a vertex map m, written out key by key.
Flat(m) ==
    LET p == IF "properties" \in DOMAIN m.v THEN m.v["properties"].v ELSE EmptyMap
        ks == (((DOMAIN m.v) \cup (DOMAIN p)) \ {"properties"}) \cup {"id", "type", "label"}
    IN  M([k \in ks |->
             IF k \in {"id", "type", "label"}
             THEN (IF k \in DOMAIN m.v THEN m.v[k] ELSE Null)
             ELSE IF k \in DOMAIN p THEN p[k] ELSE m.v[k]])

\* A row with id, type and label added as null when absent, nothing else touched.
Norm(row) ==
    M([k \in (DOMAIN row.v) \cup {"id", "type", "label"} |->
         IF k \in DOMAIN row.v THEN row.v[k] ELSE Null])

\* The indices of the rows that carry the bound key k.
RowsWith(q, k) == {i \in 1..Len(q) : q[i].t = "dict" /\ k \in DOMAIN q[i].v}
MaxOf(xs) == CHOOSE x \in xs : \A y \in xs : y <= x

\* C2: hydration is a destructive refresh.  After translate, an entity bound
\* to k holds exactly the flattened properties of the last row's k value (so
\* every field it held before and the row lacks is gone), those properties
\* are appended to the output, and an entity no row names is left alone.
\* (Raw data without {key, value} mappings, which the repair would rewrite.)
C2_HydrationRefresh ==
    (t_pc = "translated" /\ NoPairs(RawData)) =>
        \A k \in t_update :
            LET idx == RowsWith(RawData, k)
            IN  IF idx = {} THEN entities[k] = t_before[k]
                ELSE LET i == MaxOf(idx)
                         m == RawData[i].v[k]
                     IN  /\ entities[k] = Flat(m).v
                         /\ \A f \in DOMAIN t_before[k] :
                               f \notin DOMAIN Flat(m).v => f \notin DOMAIN entities[k]
                         /\ (\A j \in (i + 1)..Len(RawData) : ~IsScalar(RawData[j]))
                               => Flat(m) \in Range(t_response)
                         /\ (Len(RawData) = 1 /\ (DOMAIN RawData[1].v) \cap t_update = {k})
                               => t_response = <<Flat(m)>>

\* C2 witness: the row {v: VertexA} has refreshed the entity bound to v, which
\* held the fields 'old' and 'name' before and now holds name from the row.
C2_Witness ==
    /\ t_pc = "translated"
    /\ RawData = <<M("v" :> VertexA)>>
    /\ "v" \in t_update
    /\ "old" \in DOMAIN t_before["v"]
    /\ "old" \notin DOMAIN entities["v"]
    /\ entities["v"]["name"] = S("x")
    /\ entities["v"]["id"] = I(7)
    /\ Len(t_response) = 1

\* C3 as claimed: whenever the raw sequence holds a non-container element, the
\* output is the single row {"response": s}, s its last non-container element.
C3_Original ==
    (t_pc = "translated" /\ HasScalar(RawData)) =>
        t_response = <<M("response" :> RawData[LastScalar(RawData)])>>

\* C3 amended: for raw data with a non-container element and no {key, value}
\* mapping, the output is the row {"response": s}, s the last non-container
\* element, followed by the rows of the elements after s; nothing of the
\* elements before s is kept.  With a {key, value} mapping in the data, the
\* repair removes the non-container elements and no response row is built.
C3_ScalarShortCircuit ==
    (t_pc = "translated" /\ HasScalar(RawData)) =>
        IF NoPairs(RawData)
        THEN LET j == LastScalar(RawData)
             IN  t_response = <<M("response" :> RawData[j])>>
                                \o RowsOf(SubSeq(RawData, j + 1, Len(RawData)))
        ELSE \A i \in 1..Len(t_response) :
                ~(t_response[i].t = "dict" /\ DOMAIN t_response[i].v = {"response"})

\* C3 witness: a scalar between two mappings; the row before it is gone, the
\* row after it follows the response row.
C3_Witness ==
    /\ t_pc = "translated"
    /\ Len(RawData) = 3
    /\ RawData[1] = M("a" :> I(1))
    /\ RawData[2] = I(2)
    /\ RawData[3] = M("a" :> I(1))
    /\ t_response = <<M("response" :> I(2)), Norm(M("a" :> I(1)))>>

\* C4 as claimed: a sequence of {key, value} pairs is rebuilt into one mapping
\* holding every pair, so the output is a single row with every pair's key.
C4_Original ==
    (/\ t_pc = "translated"
     /\ Len(RawData) >= 1
     /\ \A i \in 1..Len(RawData) :
           /\ RawData[i].t = "dict"
           /\ DOMAIN RawData[i].v = {"key", "value"}
           /\ RawData[i].v["key"].v \notin t_update)
    => /\ Len(t_response) = 1
       /\ \A i \in 1..Len(RawData) : RawData[i].v["key"].v \in DOMAIN t_response[1].v

\* C5 as claimed: a lone row that is a plain mapping without 'properties' and
\* without a bound key comes out as itself plus null id, type and label,
\* whatever its keys are.
C5_Original ==
    (/\ t_pc = "translated"
     /\ Len(RawData) = 1
     /\ RawData[1].t = "dict"
     /\ "properties" \notin DOMAIN RawData[1].v
     /\ (DOMAIN RawData[1].v) \cap t_update = {})
    => t_response = <<Norm(RawData[1])>>

\* A row C5 as amended speaks of.
PlainRow(e) ==
    /\ e.t = "dict"
    /\ "properties" \notin DOMAIN e.v
    /\ (DOMAIN e.v) \cap t_update = {}
    /\ ~({"key", "value"} \subseteq DOMAIN e.v)

\* The {key, value} mappings of a sequence, in order.
PairsOf(q) == SelectSeq(q, IsPair)

\* C5 amended: a plain mapping with no 'properties' key, no bound key and not
\* both 'key' and 'value' is emitted as itself plus null id, type and label
\* where absent: the output is the rows of the elements before it, that row,
\* and the rows of the elements after it.  No row is emitted for it when a
\* non-container element follows it, or when the data holds a {key, value}
\* mapping: the output is then that of the {key, value} mappings alone.
C5_RoundTrip ==
    t_pc = "translated" =>
        IF NoPairs(RawData)
        THEN \A i \in 1..Len(RawData) :
                (PlainRow(RawData[i]) /\ \A j \in (i + 1)..Len(RawData) : ~IsScalar(RawData[j]))
                => t_response = RowsOf(SubSeq(RawData, 1, i - 1))
                                  \o <<Norm(RawData[i])>>
                                  \o RowsOf(SubSeq(RawData, i + 1, Len(RawData)))
        ELSE t_response = RowsOf(PairsOf(RawData))

\* C5 witness: the row {key: name} (a 'key' but no 'value') after another row.
C5_Witness ==
    /\ t_pc = "translated"
    /\ Len(RawData) = 2
    /\ RawData[1] = M("a" :> I(1))
    /\ RawData[2] = M("key" :> S("name"))
    /\ t_response[2] = M("key" :> S("name") @@ "id" :> Null @@ "type" :> Null @@ "label" :> Null)

\* C10 as claimed: the repaired sequence has one entry per raw element, the
\* {key, value} pairs rewritten and every other element unchanged.
C10_Original ==
    t_pc = "translated" =>
        /\ Len(t_data) = Len(RawData)
        /\ \A i \in 1..Len(RawData) :
              t_data[i] = IF IsPair(RawData[i])
                          THEN M(RawData[i].v["key"].v :> RawData[i].v["value"])
                          ELSE RawData[i]

-----------------------------------------------------------------------------
(***************************************************************************)
(* Request.send.  Each call runs between its await points as one step:     *)
(*   SendStart  up to the await of the connection's __aenter__,            *)
(*   SendEnter  the connection is entered (or refused), ws.send is called, *)
(*   SendWrite  ws.send completes, ws.recv is called,                      *)
(*   SendRecv   ws.recv completes, the frame is parsed, __aexit__ called,  *)
(*   SendClose  __aexit__ completes; the rest of send runs to its end.     *)
(* Calls on the same Request interleave at these points.                   *)
(***************************************************************************)

\* ResponseStatus(code, message, attributes=None)
ResponseStatus(code, message, attributes) ==
    [t |-> "status", code |-> code, message |-> message, attributes |-> attributes]

\* ResponseStatus(**data['status'])
status_from(d) ==
    ResponseStatus(d.v["code"], d.v["message"], dict_get(d.v, "attributes"))

\* The frames a server may answer with: text that is no JSON, JSON that is
\* no object, and objects with and without request_id, result and status.
OkStatus == M("code" :> I(200) @@ "message" :> S("ok"))
Frames ==
    { [json |-> FALSE, value |-> Null],
      [json |-> TRUE, value |-> L(<<>>)],
      [json |-> TRUE, value |-> M(EmptyMap)],
      [json |-> TRUE, value |-> M("result" :> M("data" :> L(<<I(1)>>)))],
      [json |-> TRUE, value |-> M("request_id" :> S("r") @@ "status" :> OkStatus @@
                                  "result" :> M("data" :> L(<<M("v" :> VertexA)>>)))],
      [json |-> TRUE, value |-> M("status" :> OkStatus @@ "result" :> L(<<I(1)>>))] }

\* Timer.elapsed, in milliseconds.
ElapsedTimes == {10, 20}

\* The arguments of call c: one script, its own params, entity v to refresh.
script_of(c) == "g.V(id)"
params_of(c) == "id" :> I(c)
update_entities_of(c) == {"v"}

\* _query_debug(script, params): the script with its parameters, for reading.
query_debug(script, params) == [script |-> script, params |-> params]

\* The locals of send after the frame is parsed (lines 113-122): each field
\* is taken from the payload when it is there and truthy.
parsed_locals(data) ==
    [data |-> data,
     request_id |-> IF truthy(dict_get(data.v, "request_id"))
                    THEN data.v["request_id"] ELSE Null,
     result |-> IF truthy(dict_get(data.v, "result")) THEN data.v["result"] ELSE Null,
     status |-> IF truthy(dict_get(data.v, "status"))
                THEN status_from(data.v["status"]) ELSE ResponseStatus(500, "", Null)]

\* What fails inside the body for a received frame: json.loads on text that
\* is no JSON, data.get on a value that is no object; "none" otherwise.
frame_error(frame) ==
    IF ~frame.json THEN "parse"
    ELSE IF ~isinstance_dict(frame.value) THEN "envelope"
    ELSE "none"

\* ws taken from self.connection once the await is over, when another call
\* may have stored its own connection there.
entered_shared(own) == self_connection

\* `async with self.connection as ws`: __aenter__ hands back the connection it
\* was called on, the one this call read from self.connection right after its
\* own connect(); self.connection is not read again.
entered(own) == own

\* A close that only the success path reaches.
aexit_on_success_only(conn, exc) ==
    IF exc = "none" THEN [conn EXCEPT !.state = "closed"] ELSE conn

\* The connection's __aexit__: it runs however the body ended and closes.
aexit(conn, exc) == [conn EXCEPT !.state = "closed"]

\* Request.__init__, lines 58-61: a truthy log_requests becomes a new
\* RequestQueryLogger; None (the default) and any other falsy argument, such
\* as False, are stored as they are.
LogRequests == {"logger", "None", "False"}

\* The entry added whether or not the exchange raised.
logged_despite_error(qs, exc, logger, script, params, query, elapsed) ==
    IF logger = "logger" THEN logger_add(qs, script, params, query, elapsed) ELSE qs

\* Lines 126-127: the entry is added once the `async with` block was left
\* without an exception, when request_logger is a logger.
logged(qs, exc, logger, script, params, query, elapsed) ==
    IF exc = "none" /\ logger = "logger"
    THEN logger_add(qs, script, params, query, elapsed) ELSE qs

\* Line 126-127 with request_logger False: it is not None, and has no add.
log_raises(logger) == logger = "False"

\* Response.__init__ up to the call of translate.
Response(request_id, result, update_entities, script, params, status) ==
    [request_id |-> request_id,
     result |-> IF truthy(result) THEN result ELSE M(EmptyMap),
     update_entities |-> update_entities,
     script |-> script, params |-> params, status |-> status]

\* The Response send builds (lines 129-131): status is not among the arguments,
\* so the parameter takes its default, None.
send_response(l, c) ==
    Response(l.request_id, l.result, update_entities_of(c), script_of(c), params_of(c), Null)

\* translate raises when self.result is no mapping (it has no get).
translate_raises(r) == ~isinstance_dict(r.result)

\* raise AstronomerConnectionException(e)
wrapped(cause) ==
    [kind |-> "raised", type |-> "AstronomerConnectionException", cause |-> cause]

SendInit ==
    /\ queries = <<>>
    /\ n_adds = 0
    /\ sum_times = 0
    /\ was_reset = FALSE
    /\ entities = InitEntities
    /\ t_result = EmptyMap
    /\ t_update = {}
    /\ t_pc = "new"
    /\ t_data = <<>>
    /\ t_response = <<>>
    /\ t_before = InitEntities
    /\ log_requests \in LogRequests
    /\ self_connection = 0
    /\ conns = <<>>
    /\ pc = [c \in Calls |-> "idle"]
    /\ cm = [c \in Calls |-> 0]
    /\ ws = [c \in Calls |-> 0]
    /\ locals = [c \in Calls |-> NoLocals]
    /\ pending = [c \in Calls |-> "none"]
    /\ outcome = [c \in Calls |-> NoOutcome]
    /\ events = [c \in Calls |-> <<>>]
    /\ before = [c \in Calls |-> <<>>]

\* Lines 87-105: the locals are set, connect() stores a new connection in
\* self.connection, and `async with self.connection` reads it back and awaits
\* its __aenter__.
SendStart(c) ==
    /\ pc[c] = "idle"
    /\ conns' = Append(conns, [maker |-> c, user |-> 0, state |-> "connecting",
                               wrote |-> <<>>, read |-> <<>>])
    /\ self_connection' = Len(conns) + 1
    /\ cm' = [cm EXCEPT ![c] = self_connection']
    /\ ws' = [ws EXCEPT ![c] = 0]
    /\ locals' = [locals EXCEPT ![c] =
                    [NoLocals EXCEPT !.status = ResponseStatus(500, "", Null)]]
    /\ events' = [events EXCEPT ![c] = <<[op |-> "connect", conn |-> self_connection']>>]
    /\ before' = [before EXCEPT ![c] = queries]
    /\ pc' = [pc EXCEPT ![c] = "entering"]
    /\ UNCHANGED <<log_requests, pending, outcome>>
    /\ UNCHANGED logger_vars
    /\ UNCHANGED translate_vars

\* __aenter__ completes.  Refused: the exception leaves send wrapped, and no
\* __aexit__ runs.  Entered: ws is bound, the message is built and ws.send is
\* awaited.
SendEnter(c) ==
    /\ pc[c] = "entering"
    /\ \/ /\ conns' = [conns EXCEPT ![cm[c]].state = "refused"]
          /\ outcome' = [outcome EXCEPT ![c] = wrapped("connect")]
          /\ pc' = [pc EXCEPT ![c] = "failed"]
          /\ UNCHANGED <<ws, events>>
       \/ LET w == entered(cm[c])
          IN  /\ ws' = [ws EXCEPT ![c] = w]
              /\ conns' = [conns EXCEPT ![w].state = "open", ![w].user = c]
              /\ events' = [events EXCEPT ![c] = Append(@, [op |-> "send", conn |-> w])]
              /\ pc' = [pc EXCEPT ![c] = "sending"]
              /\ UNCHANGED outcome
    /\ UNCHANGED <<log_requests, self_connection, cm, locals, pending, before>>
    /\ UNCHANGED logger_vars
    /\ UNCHANGED translate_vars

\* ws.send completes.  Failed: the exception leaves the body through
\* __aexit__.  Written: ws.recv is awaited.
SendWrite(c) ==
    /\ pc[c] = "sending"
    /\ \/ /\ pending' = [pending EXCEPT ![c] = "write"]
          /\ pc' = [pc EXCEPT ![c] = "closing"]
          /\ UNCHANGED <<conns, events>>
       \/ /\ conns' = [conns EXCEPT ![ws[c]].wrote = Append(@, c)]
          /\ events' = [events EXCEPT ![c] = Append(@, [op |-> "recv", conn |-> ws[c]])]
          /\ pc' = [pc EXCEPT ![c] = "receiving"]
          /\ UNCHANGED pending
    /\ UNCHANGED <<log_requests, self_connection, cm, ws, locals, outcome, before>>
    /\ UNCHANGED logger_vars
    /\ UNCHANGED translate_vars

\* ws.recv completes.  Failed, or a frame arrives and lines 113-122 run on it;
\* either way the body is left and __aexit__ is awaited.
SendRecv(c) ==
    /\ pc[c] = "receiving"
    /\ \/ /\ pending' = [pending EXCEPT ![c] = "read"]
          /\ UNCHANGED <<conns, locals>>
       \/ \E frame \in Frames :
             /\ conns' = [conns EXCEPT ![ws[c]].read = Append(@, c)]
             /\ pending' = [pending EXCEPT ![c] = frame_error(frame)]
             /\ locals' = [locals EXCEPT ![c] =
                             IF frame_error(frame) = "none"
                             THEN parsed_locals(frame.value) ELSE @]
    /\ pc' = [pc EXCEPT ![c] = "closing"]
    /\ UNCHANGED <<log_requests, self_connection, cm, ws, outcome, events, before>>
    /\ UNCHANGED logger_vars
    /\ UNCHANGED translate_vars

\* __aexit__ completes and the rest of send runs (lines 124-133): a pending
\* exception is wrapped and raised; otherwise the entry is logged and the
\* Response is built, whose __init__ translates and refreshes the entities.
SendClose(c) ==
    /\ pc[c] = "closing"
    /\ conns' = [conns EXCEPT ![ws[c]] = aexit(@, pending[c])]
    /\ \E elapsed \in ElapsedTimes :
         LET query == query_debug(script_of(c), params_of(c))
             qs == logged(queries, pending[c], log_requests,
                          script_of(c), params_of(c), query, elapsed)
             r == send_response(locals[c], c)
             closed == conns'[ws[c]].state = "closed"
             ev == IF closed THEN Append(events[c], [op |-> "close", conn |-> ws[c]])
                   ELSE events[c]
         IN  /\ queries' = qs
             /\ n_adds' = n_adds + (Len(qs) - Len(queries))
             /\ sum_times' = sum_times + (total_time(qs) - total_time(queries))
             /\ UNCHANGED was_reset
             /\ events' = [events EXCEPT ![c] =
                             IF qs # queries THEN Append(ev, [op |-> "add", conn |-> 0])
                             ELSE ev]
             /\ IF pending[c] # "none"
                THEN /\ outcome' = [outcome EXCEPT ![c] = wrapped(pending[c])]
                     /\ pc' = [pc EXCEPT ![c] = "failed"]
                     /\ UNCHANGED entities
                ELSE IF log_raises(log_requests)
                THEN /\ outcome' = [outcome EXCEPT ![c] = wrapped("log")]
                     /\ pc' = [pc EXCEPT ![c] = "failed"]
                     /\ UNCHANGED entities
                ELSE IF translate_raises(r)
                THEN /\ outcome' = [outcome EXCEPT ![c] = wrapped("response")]
                     /\ pc' = [pc EXCEPT ![c] = "failed"]
                     /\ UNCHANGED entities
                ELSE /\ outcome' = [outcome EXCEPT ![c] = [kind |-> "response", response |-> r]]
                     /\ pc' = [pc EXCEPT ![c] = "done"]
                     /\ entities' = translate(r.result.v, r.update_entities, entities).entities
    /\ UNCHANGED <<log_requests, self_connection, cm, ws, locals, pending, before>>
    /\ UNCHANGED response_vars

Next ==
    \E c \in Calls :
        SendStart(c) \/ SendEnter(c) \/ SendWrite(c) \/ SendRecv(c) \/ SendClose(c)

Spec == SendInit /\ [][Next]_vars

-----------------------------------------------------------------------------
(***************************************************************************)
(* Properties of send.                                                     *)
(***************************************************************************)

\* The step at which a failed call failed, read off the connection and the
\* exception kept from the body; "none" for a failure after the exchange.
FailedAt(c) ==
    IF conns[cm[c]].state = "refused" THEN "connect" ELSE pending[c]

\* The entries call c left in the logger (its params name it).
EntriesOf(c) == {i \in 1..Len(queries) : queries[i].params = params_of(c)}

IsPrefix(p, q) == Len(p) <= Len(q) /\ SubSeq(q, 1, Len(p)) = p

\* The operations a call has issued, in order.
Ops(c) == [i \in 1..Len(events[c]) |-> events[c][i].op]

Finished(c) == pc[c] \in {"done", "failed"}

\* C1: a call that failed at connect, at writing or reading the frame, or at
\* parsing it, raised the one wrapping exception with that failure as its
\* cause, returned no Response, and left no entry in the logger: the logger
\* holds the entries it held when the call began, plus only other calls'.
C1_FailedSendLeavesNoTrace ==
    \A c \in Calls :
        (pc[c] = "failed" /\ FailedAt(c) \in {"connect", "write", "read", "parse", "envelope"})
        => /\ outcome[c] = wrapped(FailedAt(c))
           /\ EntriesOf(c) = {}
           /\ IsPrefix(before[c], queries)
           /\ (\A d \in Calls \ {c} : EntriesOf(d) \subseteq 1..Len(before[c]))
                 => queries = before[c]

\* C1 witness: a call refused at connect after another call had logged its
\* entry; the logger still holds exactly that entry.
C1_Witness ==
    \E c \in Calls :
        /\ pc[c] = "failed"
        /\ FailedAt(c) = "connect"
        /\ outcome[c].kind = "raised"
        /\ Len(before[c]) = 1
        /\ queries = before[c]

\* The status the payload calls for: built from its 'status' field, or the
\* internal-error status when the field is absent.
ExpectedStatus(data) ==
    IF "status" \in DOMAIN data.v
    THEN [t |-> "status", code |-> data.v["status"].v["code"],
          message |-> data.v["status"].v["message"], attributes |-> Null]
    ELSE [t |-> "status", code |-> 500, message |-> "", attributes |-> Null]

\* C6 as claimed: the Response of a successful send carries the status built
\* from the payload, or the internal-error status; it is never unset.
C6_Original ==
    \A c \in Calls :
        pc[c] = "done" =>
            /\ outcome[c].response.status # Null
            /\ outcome[c].response.status = ExpectedStatus(locals[c].data)

\* The orders in which one call may have issued its operations.
CallOrders ==
    { <<>>,
      <<"connect">>,
      <<"connect", "send">>,
      <<"connect", "send", "close">>,
      <<"connect", "send", "recv">>,
      <<"connect", "send", "recv", "close">>,
      <<"connect", "send", "recv", "close", "add">> }

\* C8: one attempt per call, in a fixed order.  A call makes one connection,
\* sends one frame on it, reads one frame from it, and closes it; it closes on
\* success and on every failure once the connection was entered; it never
\* connects, sends or reads twice; its entry is added after the close only.
C8_SingleAttemptInOrder ==
    \A c \in Calls :
        /\ Ops(c) \in CallOrders
        /\ \A i \in 1..Len(events[c]) :
              events[c][i].op # "add" => events[c][i].conn = cm[c]
        /\ Cardinality({i \in 1..Len(conns) : conns[i].maker = c}) <= 1
        /\ \A i \in 1..Len(conns) :
              conns[i].maker = c => (Len(conns[i].wrote) <= 1 /\ Len(conns[i].read) <= 1)
        /\ (Finished(c) /\ ws[c] # 0)
              => (conns[ws[c]].state = "closed"
                  /\ Cardinality({i \in 1..Len(events[c]) : events[c][i].op = "close"}) = 1)
        /\ (Finished(c) /\ ws[c] = 0) => Ops(c) = <<"connect">>
        /\ pc[c] = "done" =>
              Ops(c) = IF log_requests = "logger"
                       THEN <<"connect", "send", "recv", "close", "add">>
                       ELSE <<"connect", "send", "recv", "close">>
        /\ EntriesOf(c) # {} => (ws[c] # 0 /\ conns[ws[c]].state = "closed")

\* C8 witness: one call ended well with its entry added after the close, and
\* another failed reading and still closed its connection.
C8_Witness ==
    \E c, d \in Calls :
        /\ pc[c] = "done"
        /\ Ops(c) = <<"connect", "send", "recv", "close", "add">>
        /\ pc[d] = "failed"
        /\ pending[d] = "read"
        /\ Ops(d) = <<"connect", "send", "recv", "close">>
        /\ conns[ws[d]].state = "closed"

\* C9: overlapping calls on one Request.  Each call's ws is the connection
\* that call made; every frame written to or read from a connection is its
\* maker's; and each successful call leaves exactly one entry in the logger.
C9_OwnConnectionPerCall ==
    /\ \A c \in Calls : ws[c] # 0 => conns[ws[c]].maker = c
    /\ \A i \in 1..Len(conns) :
          /\ conns[i].user \in {0, conns[i].maker}
          /\ \A x \in Range(conns[i].wrote) \cup Range(conns[i].read) : x = conns[i].maker
    /\ \A c \in Calls :
          (pc[c] = "done" /\ log_requests = "logger") => Cardinality(EntriesOf(c)) = 1

\* C9 witness: two calls in flight at once, the first waiting for its frame
\* on its own connection while self.connection already names the second's.
C9_Witness ==
    \E c, d \in Calls :
        /\ c # d
        /\ pc[c] = "receiving"
        /\ pc[d] = "receiving"
        /\ ws[c] # ws[d]
        /\ self_connection = ws[d]
        /\ conns[ws[c]].wrote = <<c>>
        /\ conns[ws[d]].wrote = <<d>>

=============================================================================
